---- MODULE Spec2Model ----
(***************************************************************************)
(* A model of infodump+ (src/infodump+.py): the report driver main, its    *)
(* eight report sections, and the two selection routines largest_files and *)
(* top_cpu_processes.                                                       *)
(*                                                                         *)
(* Representation.  TLC integers are 32 bits wide and a file of 2 GB has   *)
(* 2^31 bytes, so a byte count is kept as a pair <<m, b>> that stands for  *)
(* m * 2^20 + b bytes with 0 <= b < 2^20.  A path is the sequence of its   *)
(* components, each a one-character name given by its character code, so   *)
(* that Python's string order on the joined paths is the lexicographic     *)
(* order on the sequences.  A CPU percentage is a natural number or None.  *)
(* A printed line is a record [sec, kind, text].                           *)
(***************************************************************************)
EXTENDS Integers, Sequences, FiniteSets, TLC

VARIABLES pc, args, out, fs, files, procs, env

vars == <<pc, args, out, fs, files, procs, env>>

\* ------------------------------------------------------------------ bounds

\* Largest value of --largest and --cpu that is explored.
MaxCount == 3
\* Most entries a scanned tree holds.
MaxFiles == 3
\* Most processes in a snapshot.
MaxProcs == 3

Counts == 0 .. MaxCount
\* The one-character file names that occur in a directory, by character code.
Names == { 1, 2 }

\* ------------------------------------------------------------ byte counts

Limb == 1048576

KiB == 1024

Size(m, b) == <<m, b>>

\* Python's int comparison on byte counts.
SizeLess(s, t) == s[1] < t[1] \/ (s[1] = t[1] /\ s[2] < t[2])

Zero == Size(0, 0)

\* The byte counts files are given: 10 MB, 500 MB, 2^30 - 1, 2^30 (1 GB), 2 GB.
FileSizes ==
    { Size(10, 0), Size(500, 0), Size(1023, Limb - 1), Size(1024, 0), Size(2048, 0) }

\* Round q + r / (2 * half), 0 <= r < 2 * half, to the nearest integer, ties to
\* the even one: how "%.2f" rounds a double that is held exactly.
RoundHalfEven(q, r, half) ==
    IF r > half \/ (r = half /\ q % 2 = 1) THEN q + 1 ELSE q

\* f"{size / (1024 ** 2):.2f}" in hundredths.
HundredthsMB(size) ==
    LET p == 100 * size[2]
    IN  RoundHalfEven(100 * size[1] + (p \div Limb), p % Limb, Limb \div 2)

\* f"{size / (1024 ** 3):.2f}" in hundredths.  With m = 1024 g + mr the value
\* is 100 g + (u * 2^20 + br) / 2^30 where u = 100 mr + (100 b div 2^20).
HundredthsGB(size) ==
    LET p  == 100 * size[2]
        u  == 100 * (size[1] % KiB) + (p \div Limb)
        br == p % Limb
    IN  RoundHalfEven(100 * (size[1] \div KiB) + (u \div KiB),
                      (u % KiB) * Limb + br, (KiB * Limb) \div 2)

\* The two digits "%.2f" prints after the point, and the digits before it.
F2(h) == [int |-> h \div 100, frac |-> << (h % 100) \div 10, h % 10 >>]

\* A buggy threshold: GB only above 1024 ** 3 bytes.
FormatSizeStrict(size) ==
    IF SizeLess(Size(KiB, 0), size)
    THEN [num |-> F2(HundredthsGB(size)), unit |-> "GB"]
    ELSE [num |-> F2(HundredthsMB(size)), unit |-> "MB"]

\* formatted_size of largest_files: GB from 1024 ** 3 bytes on, else MB.
FormatSize(size) ==
    IF ~ SizeLess(size, Size(KiB, 0))
    THEN [num |-> F2(HundredthsGB(size)), unit |-> "GB"]
    ELSE [num |-> F2(HundredthsMB(size)), unit |-> "MB"]


\* ------------------------------------------------------------------ paths

\* The name of the one subdirectory a scanned tree may hold.
SubDir == Cardinality(Names) + 1

\* The --path argument.
PathArg == << 0 >>

\* os.path.join(root, fname).
Join(root, fname) == Append(root, fname)

\* Python's string order on two joined paths.
PathLess(p, q) ==
    \E i \in 1 .. (Len(q)) :
        /\ \A j \in 1 .. (i - 1) : j <= Len(p) /\ p[j] = q[j]
        /\ (i > Len(p) \/ p[i] < q[i])
        /\ i - 1 <= Len(p)

\* Python's tuple order on (size, fpath).
TupleLess(a, b) ==
    SizeLess(a[1], b[1]) \/ (a[1] = b[1] /\ PathLess(a[2], b[2]))

\* A buggy order: the size alone.
SizeOnlyLess(a, b) == SizeLess(a[1], b[1])

\* The order sorted() uses on the collected files.
FileLess(a, b) == TupleLess(a, b)

RECURSIVE InsertDesc(_, _)
\* x put behind every element that is not smaller: one step of a stable
\* descending sort.
InsertDesc(x, s) ==
    IF s = << >> THEN << x >>
    ELSE IF FileLess(Head(s), x) THEN << x >> \o s
    ELSE << Head(s) >> \o InsertDesc(x, Tail(s))

RECURSIVE SortedReverse(_)
\* sorted(files, reverse=True).
SortedReverse(s) ==
    IF s = << >> THEN << >>
    ELSE InsertDesc(s[Len(s)], SortedReverse(SubSeq(s, 1, Len(s) - 1)))

\* seq[:count] for count >= 0.
Slice(s, count) == SubSeq(s, 1, IF count < Len(s) THEN count ELSE Len(s))

\* ----------------------------------------------------------- printed lines

\* One print() or console.print() call of section sec.
Line(sec, kind, text) == [sec |-> sec, kind |-> kind, text |-> text]

\* header(title, console).
Header(sec, title) == Line(sec, "header", title)

\* The lines of section sec in the output o.
LinesOf(o, sec, kind) ==
    { i \in 1 .. Len(o) : o[i].sec = sec /\ o[i].kind = kind }

\* ------------------------------------------------------- the scanned tree

\* What a directory entry is, and what os.path.getsize returns for it while
\* the scan runs: a regular file (read, or gone or unreadable by then), a
\* FIFO or socket (0 bytes), a symbolic link to a file of 500 MB (getsize
\* follows it), a broken symbolic link (never statable).
NoEntry == [kind |-> "none", ok |-> FALSE, size |-> Zero]

Entries ==
    { NoEntry }
      \cup { [kind |-> "reg", ok |-> TRUE, size |-> z] : z \in FileSizes }
      \cup { [kind |-> "reg", ok |-> FALSE, size |-> Zero],
             [kind |-> "special", ok |-> TRUE, size |-> Zero],
             [kind |-> "link", ok |-> TRUE, size |-> Size(500, 0)],
             [kind |-> "broken", ok |-> FALSE, size |-> Zero] }

FileEntries == Entries \ { NoEntry }

Present(dir) == { n \in Names : dir[n].kind # "none" }

\* A place for an entry: << 1, n >> is name n under --path, << 2, n >> is name
\* n in the subdirectory.
TopSlots == { << 1, n >> : n \in Names }

LowSlots == { << 2, n >> : n \in Names }

\* The listing of one directory, given the entries f placed in the tree.
Listing(f, level) ==
    [ n \in Names |-> IF << level, n >> \in DOMAIN f THEN f[<< level, n >>] ELSE NoEntry ]

Tree(root, sub, f) ==
    [root |-> root, sub |-> sub, top |-> Listing(f, 1), low |-> Listing(f, 2)]

\* The entries placed in a tree whose subdirectory is sub: at most MaxFiles.
Placements(sub) ==
    UNION { [S -> FileEntries] :
              S \in { T \in SUBSET (TopSlots \cup (IF sub = "dir" THEN LowSlots ELSE {})) :
                        Cardinality(T) <= MaxFiles } }

\* The trees under --path: the path itself (a listable directory, missing, or
\* a directory that may not be listed), its entries, and one subdirectory
\* (absent, listable, or not listable) with its entries.
Trees ==
    { Tree(r, "none", << >>) : r \in {"missing", "denied"} }
      \cup UNION { { Tree("dir", sub, f) : f \in Placements(sub) } :
                     sub \in {"none", "dir", "denied"} }

\* The orders in which os.scandir may list the names of S.
Orders(S) ==
    { o \in [1 .. Cardinality(S) -> S] : \A i, j \in DOMAIN o : o[i] = o[j] => i = j }

\* os.walk(path), top down, symbolic links not followed, onerror=None: a
\* directory that cannot be listed yields nothing and raises nothing.
Walk(t, topOrder, lowOrder) ==
    IF t.root # "dir" THEN << >>
    ELSE << << PathArg, IF t.sub = "none" THEN << >> ELSE << SubDir >>, topOrder >> >>
           \o (IF t.sub = "dir"
               THEN << << Join(PathArg, SubDir), << >>, lowOrder >> >>
               ELSE << >>)

\* The entry a path of the walk names.
EntryAt(t, fpath) ==
    IF Len(fpath) = Len(PathArg) + 1
    THEN t.top[fpath[Len(fpath)]]
    ELSE t.low[fpath[Len(fpath)]]

\* A buggy getsize handler: an unreadable file is recorded with 0 bytes.
MeasuredOrZero(t, fpath) ==
    << << EntryAt(t, fpath).size, fpath >> >>

\* Lines 126-130: the (size, fpath) pair appended for one name, or nothing on
\* OSError.
Measured(t, fpath) ==
    IF EntryAt(t, fpath).ok THEN << << EntryAt(t, fpath).size, fpath >> >> ELSE << >>

RECURSIVE CollectDir(_, _, _)
\* The inner loop of largest_files over one directory's filenames.
CollectDir(t, root, filenames) ==
    IF filenames = << >> THEN << >>
    ELSE Measured(t, Join(root, Head(filenames)))
           \o CollectDir(t, root, Tail(filenames))

RECURSIVE Collect(_, _)
\* The outer loop of largest_files over the walk.
Collect(t, walk) ==
    IF walk = << >> THEN << >>
    ELSE CollectDir(t, Head(walk)[1], Head(walk)[3]) \o Collect(t, Tail(walk))

\* A buggy selection: reverse=True left out, so the smallest come first.
SelectedAscending(fileList, count) ==
    Slice([ i \in 1 .. Len(fileList) |->
              SortedReverse(fileList)[Len(fileList) + 1 - i] ], count)

\* sorted(files, reverse=True)[:count].
Selected(fileList, count) == Slice(SortedReverse(fileList), count)

\* The line printed for one selected file.
FileLine(e) == Line("largest", "line", << FormatSize(e[1]), e[2] >>)

\* The lines largest_files prints for the collected files.
FileLines(fileList, count) ==
    [ i \in 1 .. Len(Selected(fileList, count)) |-> FileLine(Selected(fileList, count)[i]) ]

\* The position in main after section sec has returned.
After(sec) ==
    CASE sec = "basic" -> "network"
      [] sec = "network" -> "memory"
      [] sec = "memory" -> "disks"
      [] sec = "disks" -> "largest"
      [] sec = "largest" -> "cpu"
      [] sec = "cpu" -> IF ~ args.no_temp THEN "temps"
                        ELSE IF ~ args.no_nvidia THEN "nvidia" ELSE "done"
      [] sec = "temps" -> IF ~ args.no_nvidia THEN "nvidia" ELSE "done"
      [] sec = "nvidia" -> "done"

\* largest_files(path=args.path, count=args.largest, console): nothing in its
\* try block raises, so the except branch of line 142 prints nothing.
largest_files(t, topOrder, lowOrder) ==
    /\ pc = "largest"
    /\ fs' = t
    /\ files' = Collect(t, Walk(t, topOrder, lowOrder))
    /\ out' = out \o << Header("largest", << args.largest, PathArg >>) >>
                  \o FileLines(files', args.largest)
    /\ pc' = After("largest")
    /\ UNCHANGED << args, procs, env >>

\* ------------------------------------------------------ the process list

\* A cpu_percent reading: << v >> for the number v, << >> for None (psutil puts
\* None in p.info when it may not read the value; the key is always there).
None == << >>

Reading(v) == << v >>

CpuValues == { None, Reading(0), Reading(5), Reading(90) }

Pids == 1 .. MaxProcs

ProcNames == << "a", "b", "c", "d", "e", "f" >>

ProcInfos == { [pid |-> i, name |-> ProcNames[i], cpu |-> c] : i \in Pids, c \in CpuValues }

\* psutil.process_iter(['pid', 'name', 'cpu_percent']): the processes, each
\* once, in the order the provider yields them.
Snapshots ==
    UNION { { s \in [1 .. k -> ProcInfos] :
                \A i, j \in 1 .. k : s[i].pid = s[j].pid => i = j } : k \in 0 .. MaxProcs }

\* key=lambda p: p.info.get('cpu_percent', 0): the value under the key, which
\* is None for an unreadable process; the default 0 is for a missing key only.
Key(p) == p.cpu

\* Python's < on two keys raises TypeError when one of them is None.
Comparable(a, b) == a # None /\ b # None

RECURSIVE InsertByCpu(_, _)
\* One step of the stable descending sort on the keys: [raised, val].
InsertByCpu(x, s) ==
    IF s = << >> THEN [raised |-> FALSE, val |-> << x >>]
    ELSE IF ~ Comparable(Key(Head(s)), Key(x)) THEN [raised |-> TRUE, val |-> << >>]
    ELSE IF Key(Head(s))[1] < Key(x)[1] THEN [raised |-> FALSE, val |-> << x >> \o s]
    ELSE LET r == InsertByCpu(x, Tail(s))
         IN  [raised |-> r.raised,
              val |-> IF r.raised THEN << >> ELSE << Head(s) >> \o r.val]

RECURSIVE SortedByCpu(_)
\* sorted(process_iter(...), key=..., reverse=True): the list, or TypeError.
SortedByCpu(s) ==
    IF s = << >> THEN [raised |-> FALSE, val |-> << >>]
    ELSE LET r == SortedByCpu(SubSeq(s, 1, Len(s) - 1))
         IN  IF r.raised THEN r ELSE InsertByCpu(s[Len(s)], r.val)

\* The line printed for one process.
ProcLine(p) == Line("cpu", "line", << p.pid, p.name, p.cpu >>)

\* The lines top_cpu_processes prints for processes[:n].
ProcLines(sorted, n) ==
    [ i \in 1 .. Len(Slice(sorted, n)) |-> ProcLine(Slice(sorted, n)[i]) ]

\* An exception that no handler catches leaves main with a traceback.
Crash(exc) ==
    /\ pc' = "crashed"
    /\ env' = [env EXCEPT !.raised = exc]

\* top_cpu_processes(n=args.cpu, console): no try block, so the TypeError of
\* the sort leaves the function after the header is printed.
top_cpu_processes(snapshot) ==
    /\ pc = "cpu"
    /\ procs' = snapshot
    /\ IF SortedByCpu(snapshot).raised
       THEN /\ out' = out \o << Header("cpu", << args.cpu >>) >>
            /\ Crash("TypeError")
       ELSE /\ out' = out \o << Header("cpu", << args.cpu >>) >>
                         \o ProcLines(SortedByCpu(snapshot).val, args.cpu)
            /\ pc' = After("cpu")
            /\ env' = env
    /\ UNCHANGED << args, fs, files >>

\* One call of top_cpu_processes on any snapshot.
RankStep ==
    /\ pc = "cpu"
    /\ \E snapshot \in Snapshots : top_cpu_processes(snapshot)

\* One call of largest_files on any tree, in any listing order.
ScanStep ==
    /\ pc = "largest"
    /\ \E t \in Trees :
          \E topOrder \in Orders(Present(t.top)), lowOrder \in Orders(Present(t.low)) :
              largest_files(t, topOrder, lowOrder)

\* ------------------------------------------------- the remaining sections

NoTree == Tree("missing", "none", << >>)

\* What the run has met so far: the outcome of each query, and the exception
\* that ended it.
NoEnv == [login |-> "unset", ping |-> "unset", parts |-> << >>,
          sensors |-> "unset", nvidia |-> "unset", raised |-> "none"]

\* Most mounted partitions that show_disks walks.
MaxParts == 2

\* get_basic_info(console): os.getlogin() raises OSError without a controlling
\* terminal, after the header is printed and before any line is.
get_basic_info(login) ==
    /\ pc = "basic"
    /\ IF login = "OSError"
       THEN /\ out' = out \o << Header("basic", << "SYSTEM INFO" >>) >>
            /\ pc' = "crashed"
            /\ env' = [env EXCEPT !.login = login, !.raised = "OSError"]
       ELSE /\ out' = out \o << Header("basic", << "SYSTEM INFO" >>) >>
                         \o [ i \in 1 .. 7 |-> Line("basic", "line", << i >>) ]
            /\ pc' = After("basic")
            /\ env' = [env EXCEPT !.login = login]
    /\ UNCHANGED << args, fs, files, procs >>

\* check_network(console): only CalledProcessError is caught, so a missing
\* ping (FileNotFoundError) leaves the function.
check_network(ping) ==
    /\ pc = "network"
    /\ IF ping = "missing"
       THEN /\ out' = out \o << Header("network", << "NETWORK" >>) >>
            /\ pc' = "crashed"
            /\ env' = [env EXCEPT !.ping = ping, !.raised = "FileNotFoundError"]
       ELSE /\ out' = out \o << Header("network", << "NETWORK" >>),
                                Line("network", "line",
                                     << IF ping = "ok" THEN "successful" ELSE "FAILED" >>),
                                Line("network", "line", << "Interfaces:" >>),
                                Line("network", "line", << "lo" >>) >>
            /\ pc' = After("network")
            /\ env' = [env EXCEPT !.ping = ping]
    /\ UNCHANGED << args, fs, files, procs >>

\* show_memory(console).
show_memory ==
    /\ pc = "memory"
    /\ out' = out \o << Header("memory", << "MEMORY" >>) >>
                  \o [ i \in 1 .. 3 |-> Line("memory", "line", << i >>) ]
    /\ pc' = After("memory")
    /\ UNCHANGED << args, fs, files, procs, env >>

\* The partitions show_disks reaches: all of them, or those up to the first
\* whose disk_usage raises an OSError other than PermissionError.
Reached(parts) ==
    IF \E i \in 1 .. Len(parts) : parts[i] = "OSError"
    THEN SubSeq(parts, 1, (CHOOSE i \in 1 .. Len(parts) :
                             /\ parts[i] = "OSError"
                             /\ \A j \in 1 .. (i - 1) : parts[j] # "OSError") - 1)
    ELSE parts

\* show_disks(console): PermissionError is caught per partition, any other
\* OSError of disk_usage leaves the function.
show_disks(parts) ==
    /\ pc = "disks"
    /\ out' = out \o << Header("disks", << "DISK USAGE" >>) >>
                  \o [ i \in 1 .. Len(Reached(parts)) |->
                         Line("disks", "line", << i, parts[i] >>) ]
    /\ IF Reached(parts) # parts
       THEN /\ pc' = "crashed"
            /\ env' = [env EXCEPT !.parts = parts, !.raised = "OSError"]
       ELSE /\ pc' = After("disks")
            /\ env' = [env EXCEPT !.parts = parts]
    /\ UNCHANGED << args, fs, files, procs >>

\* A buggy handler set: FileNotFoundError reported with the message of
\* CalledProcessError.
SensorsTextSame(sensors) ==
    CASE sensors = "ok" -> << "line", "sensors output" >>
      [] sensors = "failed" -> << "error", "Error executing lm-sensors" >>
      [] sensors = "missing" -> << "error", "Error executing lm-sensors" >>

\* What show_temperatures prints: the tool's output, or the message of the
\* handler of CalledProcessError, or that of FileNotFoundError.
SensorsText(sensors) ==
    CASE sensors = "ok" -> << "line", "sensors output" >>
      [] sensors = "failed" -> << "error", "Error executing lm-sensors" >>
      [] sensors = "missing" ->
           << "error", "lm-sensors command not found. Please install lm-sensors." >>

\* show_temperatures(console).
show_temperatures(sensors) ==
    /\ pc = "temps"
    /\ out' = out \o << Header("temps", << "SYSTEM TEMPERATURES" >>),
                        Line("temps", SensorsText(sensors)[1], << SensorsText(sensors)[2] >>) >>
    /\ pc' = After("temps")
    /\ env' = [env EXCEPT !.sensors = sensors]
    /\ UNCHANGED << args, fs, files, procs >>

\* What nvidia-smi does: it is not installed; its -L call fails; it lists no
\* GPU; its temperature query fails, prints nothing, or prints gpus readings.
NvidiaOutcomes ==
    { [tool |-> x, gpus |-> 0] : x \in {"missing", "list_failed", "no_gpu",
                                        "query_failed", "no_temps"} }
      \cup { [tool |-> "temps", gpus |-> g] : g \in 1 .. 2 }

\* The lines show_nvidia_temperature prints.
NvidiaLines(nv) ==
    CASE nv.tool = "missing" ->
           << Line("nvidia", "error",
                   << "nvidia-smi not found. Nvidia drivers may not be installed." >>) >>
      [] nv.tool \in {"list_failed", "query_failed"} ->
           << Line("nvidia", "error", << "Error calling nvidia-smi" >>) >>
      [] nv.tool = "no_gpu" ->
           << Line("nvidia", "line", << "No Nvidia GPU detected." >>) >>
      [] nv.tool = "no_temps" ->
           << Line("nvidia", "error", << "Unable to retrieve Nvidia GPU temperature." >>) >>
      [] nv.tool = "temps" ->
           [ i \in 1 .. nv.gpus |-> Line("nvidia", "line", << "GPU", i - 1 >>) ]

\* show_nvidia_temperature(console): it prints no header.
show_nvidia_temperature(nv) ==
    /\ pc = "nvidia"
    /\ out' = out \o NvidiaLines(nv)
    /\ pc' = After("nvidia")
    /\ env' = [env EXCEPT !.nvidia = nv.tool]
    /\ UNCHANGED << args, fs, files, procs >>

\* ------------------------------------------------------------------- main

\* The three files of 500 MB, 2 GB and 10 MB.
ScenarioTree ==
    Tree("dir", "dir",
         (<< 1, 1 >> :> [kind |-> "reg", ok |-> TRUE, size |-> Size(500, 0)])
           @@ (<< 2, 1 >> :> [kind |-> "reg", ok |-> TRUE, size |-> Size(2048, 0)])
           @@ (<< 1, 2 >> :> [kind |-> "reg", ok |-> TRUE, size |-> Size(10, 0)]))

\* The trees main is run on: --path does not exist, --path may not be listed,
\* and the three files.
MainTrees == { NoTree, Tree("denied", "none", << >>), ScenarioTree }

\* The process list {1, a, 5.0}, {2, b, 90.0}, {3, c, no reading}.
ScenarioProcs ==
    << [pid |-> 1, name |-> "a", cpu |-> Reading(5)],
       [pid |-> 2, name |-> "b", cpu |-> Reading(90)],
       [pid |-> 3, name |-> "c", cpu |-> None] >>

\* The snapshots main is run on: that list, and it without its last process.
MainSnapshots == { ScenarioProcs, SubSeq(ScenarioProcs, 1, 2) }

BasicStep == pc = "basic" /\ \E login \in {"ok", "OSError"} : get_basic_info(login)

NetworkStep ==
    pc = "network" /\ \E ping \in {"ok", "failed", "missing"} : check_network(ping)

DisksStep ==
    /\ pc = "disks"
    /\ \E k \in 0 .. MaxParts :
          \E parts \in [1 .. k -> {"ok", "PermissionError", "OSError"}] : show_disks(parts)

MainScanStep ==
    /\ pc = "largest"
    /\ \E t \in MainTrees :
          \E topOrder \in Orders(Present(t.top)), lowOrder \in Orders(Present(t.low)) :
              largest_files(t, topOrder, lowOrder)

MainRankStep == pc = "cpu" /\ \E snapshot \in MainSnapshots : top_cpu_processes(snapshot)

TempsStep ==
    pc = "temps" /\ \E sensors \in {"ok", "failed", "missing"} : show_temperatures(sensors)

NvidiaStep == pc = "nvidia" /\ \E nv \in NvidiaOutcomes : show_nvidia_temperature(nv)

\* main() from line 259 on: the sections in their order, each called once.
Next ==
    \/ BasicStep
    \/ NetworkStep
    \/ show_memory
    \/ DisksStep
    \/ MainScanStep
    \/ MainRankStep
    \/ TempsStep
    \/ NvidiaStep

\* The default of --largest and --cpu.
DefaultCount == 3

\* main() after parse_args.
Init ==
    /\ pc = "basic"
    /\ args \in [largest : {2, DefaultCount}, cpu : {2, DefaultCount},
                 no_temp : BOOLEAN, no_nvidia : BOOLEAN]
    /\ out = << >>
    /\ fs = NoTree
    /\ files = << >>
    /\ procs = << >>
    /\ env = NoEnv

Spec == Init /\ [][Next]_vars

\* main() has parsed its arguments and is about to call largest_files.
InitFiles ==
    /\ pc = "largest"
    /\ args \in [largest : Counts, cpu : {MaxCount}, no_temp : {FALSE}, no_nvidia : {FALSE}]
    /\ out = << >>
    /\ fs = NoTree
    /\ files = << >>
    /\ procs = << >>
    /\ env = NoEnv

SpecFiles == InitFiles /\ [][ScanStep]_vars

\* main() has parsed its arguments and is about to call top_cpu_processes.
InitCpu ==
    /\ pc = "cpu"
    /\ args \in [largest : {MaxCount}, cpu : Counts, no_temp : {FALSE}, no_nvidia : {FALSE}]
    /\ out = << >>
    /\ fs = NoTree
    /\ files = << >>
    /\ procs = << >>
    /\ env = NoEnv

SpecCpu == InitCpu /\ [][RankStep]_vars

\* ------------------------------------------------------------ properties

IsFileLine(l) == l.sec = "largest" /\ l.kind = "line"

IsProcLine(l) == l.sec = "cpu" /\ l.kind = "line"

\* The file lines, and the process lines, of the output.
FilesPrinted == SelectSeq(out, IsFileLine)

ProcsPrinted == SelectSeq(out, IsProcLine)

\* largest_files, and top_cpu_processes, has been called.
ScanRan == LinesOf(out, "largest", "header") # {}

RankRan == LinesOf(out, "cpu", "header") # {}

Min(a, b) == IF a < b THEN a ELSE b

\* The paths of the entries in the directories of t that can be listed.
Enumerated(t) ==
    IF t.root # "dir" THEN {}
    ELSE { Join(PathArg, n) : n \in Present(t.top) }
           \cup (IF t.sub = "dir"
                 THEN { Join(Join(PathArg, SubDir), n) : n \in Present(t.low) }
                 ELSE {})

\* Those whose size can be read, and the (size, path) pairs they give.
Measurable(t) == { q \in Enumerated(t) : EntryAt(t, q).ok }

Pairs(t) == { << EntryAt(t, q).size, q >> : q \in Measurable(t) }

\* a is listed before b: the larger size first, and of two equal sizes the
\* path that is later in string order.
Before(a, b) ==
    \/ a[1][1] > b[1][1]
    \/ a[1][1] = b[1][1] /\ a[1][2] > b[1][2]
    \/ a[1] = b[1] /\ PathLess(b[2], a[2])

RECURSIVE TopK(_, _)
\* The first k of the set S in that order.
TopK(S, k) ==
    IF k = 0 \/ S = {} THEN << >>
    ELSE LET first == CHOOSE x \in S : \A y \in S \ { x } : Before(x, y)
         IN  << first >> \o TopK(S \ { first }, k - 1)

PathOf(l) == l.text[2]

\* C1: no failure inside a section ends the run: whatever a section meets, the
\* run goes on to the later sections and never stops with an exception.
C1_NoSectionEndsTheRun == pc # "crashed" /\ env.raised = "none"

\* C2: when --path is missing or cannot be opened, largest_files prints exactly
\* one error line and no file line, and the run goes on to top_cpu_processes.
C2_MissingRootOneError ==
    (ScanRan /\ fs.root # "dir") =>
        /\ Cardinality(LinesOf(out, "largest", "error")) = 1
        /\ FilesPrinted = << >>
        /\ pc = "cpu" \/ RankRan

\* C5: largest_files prints at most K lines, in non-increasing order of size,
\* in an order fixed by the set of (size, path) pairs collected, and each line
\* shows the size measured for its file.
C5_AtMostKSortedDeterministic ==
    ScanRan =>
        /\ Len(FilesPrinted) <= args.largest
        /\ \A i, j \in 1 .. Len(FilesPrinted) :
             i < j => ~ SizeLess(EntryAt(fs, PathOf(FilesPrinted[i])).size,
                                 EntryAt(fs, PathOf(FilesPrinted[j])).size)
        /\ Len(FilesPrinted) = Len(TopK(Pairs(fs), args.largest))
        /\ \A i \in 1 .. Len(FilesPrinted) :
             /\ PathOf(FilesPrinted[i]) = TopK(Pairs(fs), args.largest)[i][2]
             /\ PathOf(FilesPrinted[i]) \in Measurable(fs)
             /\ FilesPrinted[i].text[1] = FormatSize(EntryAt(fs, PathOf(FilesPrinted[i])).size)

\* C5 witness: two files of one size were collected in the order opposite to
\* the printed one, and exactly K >= 1 of several files are printed.
C5_Witness ==
    /\ ScanRan
    /\ args.largest >= 1
    /\ Len(FilesPrinted) = args.largest
    /\ Len(files) > args.largest
    /\ \E i, j \in 1 .. Len(files) :
         i < j /\ files[i][1] = files[j][1] /\ PathLess(files[i][2], files[j][2])
           /\ PathOf(FilesPrinted[1]) = files[j][2]

\* The printed paths, and whether p lies under --path.
PrintedPaths == { PathOf(FilesPrinted[i]) : i \in 1 .. Len(FilesPrinted) }

Under(p) == Len(p) > Len(PathArg) /\ SubSeq(p, 1, Len(PathArg)) = PathArg

\* C6 as stated: every printed entry is a regular file under --path, and no
\* measurable regular file that is left out is larger than a printed one.
C6_OnlyRegularFiles ==
    ScanRan =>
        /\ \A p \in PrintedPaths : Under(p) /\ EntryAt(fs, p).kind = "reg"
        /\ \A q \in Measurable(fs) \ PrintedPaths :
             EntryAt(fs, q).kind = "reg" =>
                 \A p \in PrintedPaths : ~ SizeLess(EntryAt(fs, p).size, EntryAt(fs, q).size)

\* C6 amended: every printed entry is a non-directory entry (a regular file, a
\* link to a file, a FIFO or socket) that the walk listed under --path and
\* whose size could be read, and no such entry that is left out is larger than
\* a printed one; when fewer than K are printed, none is left out.
C6_LargestListedEntries ==
    ScanRan =>
        /\ \A p \in PrintedPaths :
             Under(p) /\ p \in Measurable(fs)
               /\ EntryAt(fs, p).kind \in {"reg", "link", "special"}
        /\ \A q \in Measurable(fs) \ PrintedPaths :
             \A p \in PrintedPaths : ~ SizeLess(EntryAt(fs, p).size, EntryAt(fs, q).size)
        /\ Len(FilesPrinted) < args.largest => PrintedPaths = Measurable(fs)

\* C6 witness: K entries are printed, one of them not a regular file, and an
\* entry whose size was read is left out.
C6_Witness ==
    /\ ScanRan
    /\ \E p \in PrintedPaths : EntryAt(fs, p).kind # "reg"
    /\ Measurable(fs) \ PrintedPaths # {}
    /\ args.largest = Len(FilesPrinted)

\* C8: a file whose size cannot be read is neither collected nor printed, with
\* size zero or any other; the scan goes on, so that every other listed file
\* whose size can be read is collected once with that size and the K largest
\* of them are printed; nothing ends the call.
C8_UnreadableSkipped ==
    ScanRan =>
        /\ \A q \in Enumerated(fs) \ Measurable(fs) :
             /\ q \notin PrintedPaths
             /\ \A i \in 1 .. Len(files) : files[i][2] # q
        /\ \A q \in Measurable(fs) :
             Cardinality({ i \in 1 .. Len(files) :
                             files[i] = << EntryAt(fs, q).size, q >> }) = 1
        /\ Len(FilesPrinted) = Min(args.largest, Cardinality(Measurable(fs)))
        /\ LinesOf(out, "largest", "error") = {}
        /\ pc = "cpu"

\* C8 witness: a regular file that could not be read stands, in listing order,
\* before a file that was read and printed, and K exceeds the files collected.
C8_Witness ==
    /\ ScanRan
    /\ fs.top[1].kind = "reg" /\ ~ fs.top[1].ok
    /\ fs.sub = "dir" /\ fs.low[1].kind = "reg" /\ fs.low[1].ok
    /\ Join(Join(PathArg, SubDir), 1) \in PrintedPaths
    /\ Len(files) < args.largest

\* The hundredths a printed number stands for.
HundredthsOf(num) == 100 * num.int + 10 * num.frac[1] + num.frac[2]

\* h hundredths is a nearest value to size / 2^20 ...
NearestMB(h, size) ==
    /\ h - 100 * size[1] \in 0 .. 100
    /\ 100 * size[2] - (h - 100 * size[1]) * Limb \in (0 - Limb \div 2) .. (Limb \div 2)

\* ... and to size / 2^30.
NearestGB(h, size) ==
    /\ 100 * size[1] - KiB * h \in (0 - KiB) .. KiB
    /\ (100 * size[1] - KiB * h + KiB \div 2) * Limb + 100 * size[2] >= 0
    /\ (100 * size[1] - KiB * h - KiB \div 2) * Limb + 100 * size[2] <= 0

\* C9: each printed size is in GB (the size over 2^30) exactly when the size is
\* at least 2^30 bytes and in MB (the size over 2^20) otherwise, rounded to the
\* nearest hundredth and printed with two decimal digits.
C9_UnitAndTwoDecimals ==
    ScanRan =>
        \A i \in 1 .. Len(FilesPrinted) :
            LET size == EntryAt(fs, PathOf(FilesPrinted[i])).size
                shown == FilesPrinted[i].text[1]
            IN  /\ shown.unit = (IF size[1] >= KiB THEN "GB" ELSE "MB")
                /\ Len(shown.num.frac) = 2
                /\ \A d \in 1 .. 2 : shown.num.frac[d] \in 0 .. 9
                /\ shown.num.int >= 0
                /\ IF size[1] >= KiB
                   THEN NearestGB(HundredthsOf(shown.num), size)
                   ELSE NearestMB(HundredthsOf(shown.num), size)

\* C9 witness: files of 500 MB, 2 GB and 10 MB with K = 2 give 2.00 GB and
\* then 500.00 MB.
C9_Witness ==
    /\ ScanRan
    /\ fs = ScenarioTree
    /\ args.largest = 2
    /\ Len(FilesPrinted) = 2
    /\ FilesPrinted[1].text[1] = [num |-> [int |-> 2, frac |-> << 0, 0 >>], unit |-> "GB"]
    /\ FilesPrinted[2].text[1] = [num |-> [int |-> 500, frac |-> << 0, 0 >>], unit |-> "MB"]

\* The usage a process is ranked by when a missing reading counts as 0.
Usage(p) == IF p.cpu = None THEN 0 ELSE p.cpu[1]

PrintedPids == { ProcsPrinted[i].text[1] : i \in 1 .. Len(ProcsPrinted) }

ProcOf(pid) == CHOOSE i \in 1 .. Len(procs) : procs[i].pid = pid

\* C3: a process without a CPU reading is ranked as if its usage were 0: the
\* ranking does not fail, min(N, m) processes are printed in non-increasing
\* order of usage, and no process left out has a higher usage than a printed one.
C3_AbsentReadingRanksAsZero ==
    RankRan =>
        /\ pc # "crashed"
        /\ Len(ProcsPrinted) = Min(args.cpu, Len(procs))
        /\ \A i, j \in 1 .. Len(ProcsPrinted) :
             i < j => Usage(procs[ProcOf(ProcsPrinted[i].text[1])])
                        >= Usage(procs[ProcOf(ProcsPrinted[j].text[1])])
        /\ \A k \in 1 .. Len(procs) :
             procs[k].pid \notin PrintedPids =>
                 \A q \in PrintedPids : Usage(procs[ProcOf(q)]) >= Usage(procs[k])

\* p is ranked before q: the higher usage first, and of two equal usages the
\* lower PID.
RankedBefore(p, q) ==
    Usage(p) > Usage(q) \/ (Usage(p) = Usage(q) /\ p.pid < q.pid)

RECURSIVE TopN(_, _)
TopN(S, n) ==
    IF n = 0 \/ S = {} THEN << >>
    ELSE LET first == CHOOSE x \in S : \A y \in S \ { x } : RankedBefore(x, y)
         IN  << first.pid >> \o TopN(S \ { first }, n - 1)

C7_CountIsMin ==
    /\ ScanRan =>
         /\ Len(FilesPrinted) = Min(args.largest, Len(files))
         /\ LinesOf(out, "largest", "error") = {}
         /\ pc # "crashed"
    /\ RankRan =>
         /\ Len(ProcsPrinted) = Min(args.cpu, Len(procs))
         /\ pc # "crashed"

\* The text of the error line of section sec, if there is exactly one.
ErrorTexts(sec) == { out[i].text[1] : i \in LinesOf(out, sec, "error") }

\* C10: when sensors, or nvidia-smi, is not installed the section prints its
\* "not found" message, which is not the message of a failed execution; when
\* the execution fails it prints that other message; in both cases the
\* section returns and the run goes on.
C10_NotFoundIsDistinct ==
    /\ env.sensors = "missing" =>
         /\ ErrorTexts("temps")
              = { "lm-sensors command not found. Please install lm-sensors." }
         /\ SensorsText("failed")[2] \notin ErrorTexts("temps")
         /\ pc \in {"nvidia", "done"} /\ env.raised = "none"
    /\ env.sensors = "failed" =>
         /\ ErrorTexts("temps") = { "Error executing lm-sensors" }
         /\ pc \in {"nvidia", "done"} /\ env.raised = "none"
    /\ env.nvidia = "missing" =>
         /\ ErrorTexts("nvidia")
              = { "nvidia-smi not found. Nvidia drivers may not be installed." }
         /\ pc = "done" /\ env.raised = "none"
    /\ env.nvidia \in {"list_failed", "query_failed"} =>
         /\ ErrorTexts("nvidia") = { "Error calling nvidia-smi" }
         /\ pc = "done" /\ env.raised = "none"

\* C10 witness: neither tool is installed, both sections have said so, and the
\* run has ended normally.
C10_Witness ==
    /\ env.sensors = "missing"
    /\ env.nvidia = "missing"
    /\ pc = "done"
    /\ Cardinality(LinesOf(out, "temps", "error")) = 1
    /\ Cardinality(LinesOf(out, "nvidia", "error")) = 1

====
